---- MODULE Spec2Model ----
(***************************************************************************)
(* lefticus::tools::simple_stack_vector<Contained, Capacity>               *)
(* (simple_stack_vector.hpp) and lefticus::tools::int_np<Type>             *)
(* (non_promoting_ints.hpp) as state machines.                             *)
(*                                                                         *)
(* Spec:     one container, vec, of any capacity 0..MaxCapacity, driven by *)
(*           every member function from its default-constructed state.     *)
(* SpecPair: operator== and the converting constructor applied to two      *)
(*           containers, vec and vec2,  of independently chosen            *)
(*           capacities, each in a state member calls leave a container    *)
(*           in.                                                           *)
(* SpecNp:   the arithmetic of int_np<std::int8_t>.                        *)
(* Every call leaves its name, its argument, the exception it threw (if    *)
(* any) and what it returned in `last` (`np` for int_np).                  *)
(***************************************************************************)
EXTENDS Integers, Sequences, FiniteSets, TLC

VARIABLES vec, vec2, last, np

vars == <<vec, vec2, last, np>>

\* ------------------------------------------------------------------ bounds

\* largest Capacity template argument explored (capacities 0..MaxCapacity)
MaxCapacity == 2

\* element values are 0..MaxValue
MaxValue == 1

\* ------------------------------------------------------- types and helpers

\* std::size_t, scaled down: an unsigned type whose largest value lies beyond
\* every capacity explored and beyond capacity + 1, with wrap-around
\* arithmetic (size_type = std::array<..>::size_type = std::size_t).
SIZE_MAX == MaxCapacity + 2

size_type == 0..SIZE_MAX

\* unsigned decrement, modulo SIZE_MAX + 1
Decrement(n) == (n + SIZE_MAX) % (SIZE_MAX + 1)

\* the values of the element type Contained
Values == 0..MaxValue

\* Contained{}: the value every slot of data_ holds after `data_type data_{}`
value_type_default == 0

\* a call that returns void
Void == "void"

\* ----------------------------------------------------------- construction

\* simple_stack_vector() = default, with `data_type data_{}; size_type size_{}`
DefaultConstructed(N) ==
  [Capacity |-> N, data_ |-> [i \in 0..(N - 1) |-> value_type_default], size_ |-> 0]

\* outcome of a call: the object afterwards, what was thrown, what was returned
Returns(self, ret) == [self |-> self, result |-> "ok", ret |-> ret]

Throws(self, what) == [self |-> self, result |-> what, ret |-> Void]

\* the call indexes data_ outside [0, Capacity): undefined behaviour
Undefined(self) == [self |-> self, result |-> "undefined", ret |-> Void]

\* --------------------------------------------------------------- observers

size(self) == self.size_

capacity(self) == self.Capacity

empty(self) == self.size_ = 0

\* ---------------------------------------------------------------- mutation

\* push_back with the slot assigned ahead of the capacity check
push_back_assigns_first(self, value) ==
  IF self.size_ = self.Capacity
  THEN Throws([self EXCEPT !.data_ = [i \in 0..(self.Capacity - 1) |->
                                       IF i = self.Capacity - 1 THEN value ELSE self.data_[i]]],
              "length_error")
  ELSE IF self.size_ > self.Capacity THEN Undefined(self)
  ELSE LET stored == [self EXCEPT !.data_[self.size_] = value]
       IN  Returns([stored EXCEPT !.size_ = self.size_ + 1], stored.data_[self.size_])

\* push_back with size_ incremented ahead of the assignment
push_back_increments_first(self, value) ==
  IF self.size_ = self.Capacity THEN Throws(self, "length_error")
  ELSE IF self.size_ > self.Capacity THEN Undefined(self)
  ELSE LET stored == [self EXCEPT !.data_ = [i \in 0..(self.Capacity - 1) |->
                                              IF i = self.size_ + 1 THEN value
                                              ELSE self.data_[i]]]
       IN  Returns([stored EXCEPT !.size_ = self.size_ + 1], value)

push_back(self, value) ==
  IF self.size_ = self.Capacity THEN Throws(self, "length_error")
  ELSE IF self.size_ > self.Capacity THEN Undefined(self)
  ELSE LET stored == [self EXCEPT !.data_[self.size_] = value]
       IN  Returns([stored EXCEPT !.size_ = self.size_ + 1], stored.data_[self.size_])

emplace_back(self, param) ==
  IF self.size_ = self.Capacity THEN Throws(self, "length_error")
  ELSE IF self.size_ > self.Capacity THEN Undefined(self)
  ELSE LET stored == [self EXCEPT !.data_[self.size_] = param]
       IN  Returns([stored EXCEPT !.size_ = self.size_ + 1], stored.data_[self.size_])

pop_back(self) == Returns([self EXCEPT !.size_ = Decrement(self.size_)], Void)

clear(self) == Returns([self EXCEPT !.size_ = 0], Void)

reserve(self, new_capacity) ==
  IF new_capacity > self.Capacity THEN Throws(self, "length_error")
  ELSE Returns(self, Void)

shrink_to_fit(self) == Returns(self, Void)

\* ---------------------------------------------------------------- iterators
\* A forward iterator is the index of the slot it points at (Capacity: one
\* past the array).  A reverse iterator is the index of its base iterator:
\* it designates slot base - 1, ++ moves the base down, data_.rbegin() has
\* base Capacity and data_.rend() has base 0.

begin(self) == 0

end(self) == begin(self) + self.size_

\* rbegin() as data_.rbegin(), at the last slot of the array
rbegin_of_array(self) == self.Capacity

rbegin(self) == self.Capacity - (self.Capacity - self.size_)

rend(self) == 0

\* slots visited by `for (it = first; it != last; ++it)`
RECURSIVE forward_range(_, _)
forward_range(first, last_) ==
  IF first = last_ THEN <<>> ELSE <<first>> \o forward_range(first + 1, last_)

\* slots visited by the same loop over reverse iterators
RECURSIVE reverse_range(_, _)
reverse_range(first, last_) ==
  IF first = last_ THEN <<>> ELSE <<first - 1>> \o reverse_range(first - 1, last_)

ValuesAt(self, slots) == [k \in 1..Len(slots) |-> self.data_[slots[k]]]

\* for (const auto &value : self): the values met from begin() to end()
iterate(self) ==
  IF self.size_ > self.Capacity THEN Undefined(self)
  ELSE Returns(self, ValuesAt(self, forward_range(begin(self), end(self))))

\* the values met from rbegin() to rend()
reverse_iterate(self) ==
  IF self.size_ > self.Capacity THEN Undefined(self)
  ELSE Returns(self, ValuesAt(self, reverse_range(rbegin(self), rend(self))))

\* ------------------------------------------------------------------ access

\* operator[]: data_[idx], no check
subscript(self, idx) ==
  IF idx < self.Capacity THEN Returns(self, self.data_[idx]) ELSE Undefined(self)

\* at() checking the index against the capacity
at_checks_capacity(self, idx) ==
  IF idx >= self.Capacity THEN Throws(self, "out_of_range") ELSE subscript(self, idx)

at(self, idx) ==
  IF idx >= self.size_ THEN Throws(self, "out_of_range") ELSE subscript(self, idx)

front(self) ==
  IF self.Capacity = 0 THEN Undefined(self) ELSE Returns(self, self.data_[0])

back(self) ==
  IF self.Capacity = 0 THEN Undefined(self)
  ELSE Returns(self, self.data_[self.Capacity - 1])

\* ------------------------------------------------------------------ resize

\* while (old_end != new_end) { *old_end = data_type{}; ++old_end; }
\* The right-hand side is a std::array<value_type, Capacity>, not a
\* value_type: the slot receives whatever the element type's assignment from
\* that array stores (`assigned`, any value of the type); for an element type
\* with no such assignment (int, for one) the member function is ill-formed.
RECURSIVE resize_fill(_, _, _, _)
resize_fill(data, old_end, new_end, assigned) ==
  IF old_end = new_end THEN data
  ELSE resize_fill([data EXCEPT ![old_end] = assigned], old_end + 1, new_end, assigned)

\* resize() without the capacity check
resize_unchecked(self, new_size, assigned) ==
  IF new_size <= self.size_ THEN Returns([self EXCEPT !.size_ = new_size], Void)
  ELSE Returns([self EXCEPT !.size_ = new_size,
                            !.data_ = [i \in 0..(self.Capacity - 1) |->
                                         IF i >= self.size_ /\ i < new_size THEN assigned
                                         ELSE self.data_[i]]], Void)

resize(self, new_size, assigned) ==
  IF new_size <= self.size_ THEN Returns([self EXCEPT !.size_ = new_size], Void)
  ELSE IF new_size > self.Capacity THEN Throws(self, "length_error")
  ELSE LET old_end == end(self)
           grown == [self EXCEPT !.size_ = new_size]
           new_end == end(grown)
       IN  Returns([grown EXCEPT !.data_ = resize_fill(self.data_, old_end, new_end, assigned)], Void)

\* -------------------------------------------------------------- operator==

RECURSIVE equal_loop(_, _, _)
equal_loop(lhs, rhs, idx) ==
  IF idx < lhs.size_
  THEN IF idx >= lhs.Capacity \/ idx >= rhs.Capacity THEN Undefined(lhs)
       ELSE IF lhs.data_[idx] # rhs.data_[idx] THEN Returns(lhs, FALSE)
       ELSE equal_loop(lhs, rhs, idx + 1)
  ELSE Returns(lhs, TRUE)

\* operator== comparing the two arrays whole
operator_eq_whole_array(lhs, rhs) ==
  Returns(lhs, lhs.size_ = rhs.size_ /\ lhs.data_ = rhs.data_)

operator_eq(lhs, rhs) ==
  IF lhs.size_ = rhs.size_ THEN equal_loop(lhs, rhs, 0) ELSE Returns(lhs, FALSE)

\* ------------------------------------------------- converting constructor

\* Contained{ value }: list-initialisation admits no narrowing, the value is
\* kept
Converted(value) == value

\* for (const auto &value : other) { push_back(Contained{ value }); }
RECURSIVE construct_loop(_, _, _, _)
construct_loop(self, other, it, last_) ==
  IF it = last_ THEN Returns(self, Void)
  ELSE LET pushed == push_back(self, Converted(other.data_[it]))
       IN  IF pushed.result # "ok" THEN pushed
           ELSE construct_loop(pushed.self, other, it + 1, last_)

\* the constructor copying every slot of the source array
converting_constructor_all_slots(N, other) ==
  IF other.size_ > other.Capacity THEN Undefined(DefaultConstructed(N))
  ELSE construct_loop(DefaultConstructed(N), other, begin(other), other.Capacity)

converting_constructor(N, other) ==
  IF other.size_ > other.Capacity THEN Undefined(DefaultConstructed(N))
  ELSE construct_loop(DefaultConstructed(N), other, begin(other), end(other))

\* ------------------------------------------------------------------- calls

\* the calls that return (a reference to) one element, and the traversals
ElementCalls == {"push_back", "emplace_back", "at", "front", "back"}

TraversalCalls == {"iterate", "reverse_iterate"}

\* What a call leaves to observe: its name and argument, how it ended, the
\* element or elements it returned (`ret`, empty otherwise) and the bool it
\* returned (`equal`, operator== only).
Called(op, arg, out) ==
  [op |-> op, arg |-> arg, result |-> out.result,
   ret |-> IF out.result # "ok" THEN <<>>
           ELSE IF op \in ElementCalls THEN <<out.ret>>
           ELSE IF op \in TraversalCalls THEN out.ret
           ELSE <<>>,
   equal |-> (op = "operator==" /\ out.result = "ok" /\ out.ret)]

\* every object of capacity N: any content in the N slots, any size_.  Member
\* calls reach each of them (push_back fills the slots, resize and pop_back,
\* also on an empty container, set size_).
ContainerStates(N) ==
  { [Capacity |-> N, data_ |-> d, size_ |-> s] : d \in [0..(N - 1) -> Values], s \in size_type }

\* what undefined behaviour may leave in an object of capacity N
Clobbered(N) == ContainerStates(N)

\* A call on vec with outcome `out`.
Call(op, arg, out) ==
  /\ IF out.result = "undefined" THEN vec' \in Clobbered(vec.Capacity)
     ELSE vec' = out.self
  /\ last' = Called(op, arg, out)
  /\ UNCHANGED <<vec2, np>>

PushBack(value) == Call("push_back", value, push_back(vec, value))

EmplaceBack(param) == Call("emplace_back", param, emplace_back(vec, param))

PopBack == Call("pop_back", 0, pop_back(vec))

Clear == Call("clear", 0, clear(vec))

Resize(new_size) ==
  \E assigned \in Values : Call("resize", new_size, resize(vec, new_size, assigned))

Reserve(new_capacity) == Call("reserve", new_capacity, reserve(vec, new_capacity))

ShrinkToFit == Call("shrink_to_fit", 0, shrink_to_fit(vec))

At(idx) == Call("at", idx, at(vec, idx))

Front == Call("front", 0, front(vec))

Back == Call("back", 0, back(vec))

Iterate == Call("iterate", 0, iterate(vec))

ReverseIterate == Call("reverse_iterate", 0, reverse_iterate(vec))

NoCall == Called("none", 0, Returns(DefaultConstructed(0), Void))

NpIdle == [value |-> 0, op |-> "none", lhs |-> 0, rhs |-> 0, ret |-> 0]

Init ==
  /\ \E N \in 0..MaxCapacity : vec = DefaultConstructed(N)
  /\ vec2 = DefaultConstructed(0)
  /\ last = NoCall
  /\ np = NpIdle

Next ==
  \/ \E value \in Values : PushBack(value)
  \/ \E param \in Values : EmplaceBack(param)
  \/ PopBack
  \/ Clear
  \/ \E new_size \in size_type : Resize(new_size)
  \/ \E new_capacity \in size_type : Reserve(new_capacity)
  \/ ShrinkToFit
  \/ \E idx \in size_type : At(idx)
  \/ Front
  \/ Back
  \/ Iterate
  \/ ReverseIterate

Spec == Init /\ [][Next]_vars

\* --------------------------------------------------- two containers at once

\* vec == vec2; both operands are const
Equals == Call("operator==", 0, operator_eq(vec, vec2))

\* vec is constructed anew, with its own capacity, from vec2; when the
\* constructor throws no object comes to exist and vec stays what it was
Construct ==
  LET out == converting_constructor(vec.Capacity, vec2)
  IN  Call("simple_stack_vector", 0, IF out.result = "length_error" THEN Throws(vec, "length_error") ELSE out)

InitPair ==
  /\ \E N \in 0..MaxCapacity : vec \in ContainerStates(N)
  /\ \E M \in 0..MaxCapacity : vec2 \in ContainerStates(M)
  /\ last = NoCall
  /\ np = NpIdle

NextPair == Equals \/ Construct

SpecPair == InitPair /\ [][NextPair]_vars

\* ------------------------------------------------------ int_np<std::int8_t>

\* width of value_type = std::int8_t (int_np8_t)
Bits == 8

\* largest magnitude of a right-hand operand explored
MaxOperand == 3

NpValues == (-(2 ^ (Bits - 1)))..(2 ^ (Bits - 1) - 1)

Operands == ((-MaxOperand)..MaxOperand) \ {0}

\* static_cast<value_type>(x) of an int x: x modulo 2^Bits, in the signed range
static_cast(x) ==
  LET m == x % (2 ^ Bits) IN IF m >= 2 ^ (Bits - 1) THEN m - 2 ^ Bits ELSE m

Abs(x) == IF x < 0 THEN -x ELSE x

\* a / b and a % b on int (both operands are promoted): the quotient is
\* truncated toward zero, (a / b) * b + a % b == a
Quotient(a, b) ==
  IF (a < 0) = (b < 0) THEN Abs(a) \div Abs(b) ELSE -(Abs(a) \div Abs(b))

Remainder(a, b) == a - b * Quotient(a, b)

from(value) == static_cast(value)

\* friend operator%(int_np, int_np) and operator/(int_np, int_np)
operator_rem(lhs, rhs) == from(Remainder(lhs, rhs))

operator_div(lhs, rhs) == from(Quotient(lhs, rhs))

\* operator/=(std::integral auto) and operator/=(int_np)
div_assign(value, rhs) == static_cast(Quotient(value, rhs))

div_assign_np(value, rhs) == static_cast(Quotient(value, rhs))

\* operator%=(std::integral auto): value = static_cast<value_type>(value / rhs)
rem_assign(value, rhs) == static_cast(Quotient(value, rhs))

\* operator%=(int_np): value = static_cast<value_type>(value / rhs.value)
rem_assign_np(value, rhs) == static_cast(Quotient(value, rhs))

NpCall(op, rhs, value, ret) ==
  /\ np' = [value |-> value, op |-> op, lhs |-> np.value, rhs |-> rhs, ret |-> ret]
  /\ UNCHANGED <<vec, vec2, last>>

\* a % b and a / b leave a alone and return the result
NpRem(rhs) == NpCall("%", rhs, np.value, operator_rem(np.value, rhs))

NpDiv(rhs) == NpCall("/", rhs, np.value, operator_div(np.value, rhs))

\* the compound assignments store the result in a and return *this
NpDivAssign(rhs) ==
  LET v == div_assign(np.value, rhs) IN NpCall("/=", rhs, v, v)

NpDivAssignNp(rhs) ==
  LET v == div_assign_np(np.value, rhs) IN NpCall("/=np", rhs, v, v)

NpRemAssign(rhs) ==
  LET v == rem_assign(np.value, rhs) IN NpCall("%=", rhs, v, v)

NpRemAssignNp(rhs) ==
  LET v == rem_assign_np(np.value, rhs) IN NpCall("%=np", rhs, v, v)

\* int_np(value_type value_): any value of the type
InitNp ==
  /\ vec = DefaultConstructed(0)
  /\ vec2 = DefaultConstructed(0)
  /\ last = NoCall
  /\ \E v \in NpValues : np = [NpIdle EXCEPT !.value = v]

NextNp ==
  \/ \E rhs \in Operands : NpRem(rhs)
  \/ \E rhs \in Operands : NpDiv(rhs)
  \/ \E rhs \in Operands : NpDivAssign(rhs)
  \/ \E rhs \in Operands : NpDivAssignNp(rhs)
  \/ \E rhs \in Operands : NpRemAssign(rhs)
  \/ \E rhs \in Operands : NpRemAssignNp(rhs)

SpecNp == InitNp /\ [][NextNp]_vars

\* ================================================================== claims

\* I1 of the container: the stored length lies in [0, Capacity]
I1(self) == size(self) \in 0..capacity(self)

\* the values forward iteration yields, for a container satisfying I1
Contents(self) == iterate(self).ret

\* slots 0 .. n - 1 in index order, and in reverse index order
Ascending(n) == [k \in 1..n |-> k - 1]

Descending(n) == [k \in 1..n |-> n - k]

\* C1 (as claimed): in every state reachable from a default-constructed
\* container by any sequence of calls to push_back, emplace_back, pop_back,
\* clear, resize, reserve and shrink_to_fit, 0 <= size() <= N.
C1_LengthWithinCapacity == I1(vec)

\* the calls C1 is about
LengthCalls ==
  {"push_back", "emplace_back", "pop_back", "clear", "resize", "reserve", "shrink_to_fit"}

\* C1 (amended): the container starts with length 0, and every call to
\* push_back, emplace_back, clear, resize, reserve or shrink_to_fit, and
\* every call to pop_back on a non-empty container, takes a container with
\* 0 <= size() <= N to one with 0 <= size() <= N, whether it succeeds or
\* fails; pop_back on an empty container wraps the length around to the
\* largest size_type value.
C1_LengthStaysWithinCapacity ==
  /\ I1(vec)
  /\ [][ /\ ( /\ I1(vec)
              /\ last'.op \in LengthCalls
              /\ ~(last'.op = "pop_back" /\ size(vec) = 0) ) => I1(vec')
         /\ (last'.op = "pop_back" /\ size(vec) = 0) => size(vec') = SIZE_MAX ]_vars

\* C1 witness: pop_back has emptied a container that held one element, and
\* the length is at the lower boundary
C1_Witness ==
  /\ last.op = "pop_back"
  /\ size(vec) = 0
  /\ capacity(vec) > 0
  /\ vec.data_[0] # value_type_default

\* C2: push_back or emplace_back called with size() == N, reserve(k) called
\* with k > N, and resize(k) called with k > N on a container satisfying I1,
\* throws std::length_error and leaves the length and all N slots as they
\* were.
C2_CapacityExceededIsAtomic ==
  [][ ( \/ last'.op \in {"push_back", "emplace_back"} /\ size(vec) = capacity(vec)
        \/ last'.op = "reserve" /\ last'.arg > capacity(vec)
        \/ last'.op = "resize" /\ last'.arg > capacity(vec) /\ I1(vec) )
      => (last'.result = "length_error" /\ vec' = vec) ]_vars

\* C2 witness: a push_back on a full container of non-default content has
\* thrown
C2_Witness ==
  /\ last.op = "push_back"
  /\ last.result = "length_error"
  /\ size(vec) = capacity(vec)
  /\ capacity(vec) > 1
  /\ \A i \in 0..(capacity(vec) - 1) : vec.data_[i] # last.arg

\* C3: a default-constructed container iterates as empty; each push_back that
\* succeeds appends its value to what forward iteration yields and adds one
\* to size(), each one that fails does so at size() == N and changes neither;
\* size() is the number of values iterated, at most N; pop_back drops the last
\* value, so that a following push_back appends at the new end.
C3_PushesAppendInOrder ==
  /\ Contents(vec) = <<>>
  /\ size(vec) = 0
  /\ [][ I1(vec) =>
         /\ (last'.op = "push_back" /\ size(vec) < capacity(vec)) =>
              /\ last'.result = "ok"
              /\ last'.ret = <<last'.arg>>
              /\ Contents(vec') = Append(Contents(vec), last'.arg)
              /\ size(vec') = size(vec) + 1
         /\ (last'.op = "push_back" /\ size(vec) = capacity(vec)) =>
              /\ last'.result = "length_error"
              /\ Contents(vec') = Contents(vec)
              /\ size(vec') = size(vec)
         /\ (last'.op = "pop_back" /\ size(vec) > 0) =>
              /\ Contents(vec') = SubSeq(Contents(vec), 1, size(vec) - 1)
              /\ size(vec') = size(vec) - 1
         /\ I1(vec') => Len(Contents(vec')) = size(vec') ]_vars

\* C3 witness: a push_back has succeeded in filling a container whose
\* elements differ, in push order
C3_Witness ==
  /\ last.op = "push_back"
  /\ last.result = "ok"
  /\ size(vec) = capacity(vec)
  /\ size(vec) >= 2
  /\ Contents(vec)[1] # Contents(vec)[2]
  /\ Contents(vec)[size(vec)] = last.arg

\* C4 (as claimed): on a container with 0 < length <= N, front() returns the
\* element at index 0 and back() the element at index length - 1.
C4_FrontAndBackAreLive ==
  (last.result = "ok" /\ size(vec) > 0 /\ I1(vec)) =>
     /\ last.op = "front" => last.ret = <<vec.data_[0]>>
     /\ last.op = "back" => last.ret = <<vec.data_[size(vec) - 1]>>

\* C5 (as claimed): for length < k <= N, resize(k) sets size() to k, writes
\* the element type's default value to every slot in [old length, k) and
\* leaves the slots in [0, old length) unchanged.
C5_ResizeGrowthDefaultFills ==
  [][ (last'.op = "resize" /\ size(vec) < last'.arg /\ last'.arg <= capacity(vec)) =>
        /\ size(vec') = last'.arg
        /\ \A i \in size(vec)..(last'.arg - 1) : vec'.data_[i] = value_type_default
        /\ \A i \in 0..(size(vec) - 1) : vec'.data_[i] = vec.data_[i] ]_vars

\* C6: on a container satisfying I1, at(idx) throws std::out_of_range if and
\* only if idx >= size() (idx == size(), a stale slot, idx > N alike); when
\* idx < size() it returns the element in slot idx; the container is
\* unchanged either way.
C6_AtChecksAgainstSize ==
  [][ (last'.op = "at" /\ I1(vec)) =>
        /\ last'.result \in {"ok", "out_of_range"}
        /\ last'.result = "out_of_range" <=> last'.arg >= size(vec)
        /\ last'.result = "ok" => last'.ret = <<vec.data_[last'.arg]>>
        /\ vec' = vec ]_vars

\* C6 witness: at() has thrown for the index of a stale slot that holds a
\* non-default value
C6_Witness ==
  /\ last.op = "at"
  /\ last.result = "out_of_range"
  /\ I1(vec)
  /\ last.arg > 0
  /\ last.arg < capacity(vec)
  /\ vec.data_[last.arg] # value_type_default

\* C7: for two containers satisfying I1, of capacities that may differ,
\* operator== returns true if and only if the lengths are equal and the
\* elements at every index in [0, length) are equal; capacities and stale
\* slots play no part, and neither operand changes.
C7_EqualityIsOverLiveElements ==
  [][ (last'.op = "operator==" /\ I1(vec) /\ I1(vec2)) =>
        /\ last'.result = "ok"
        /\ last'.equal = ( /\ size(vec) = size(vec2)
                           /\ \A i \in 0..(size(vec) - 1) : vec.data_[i] = vec2.data_[i] )
        /\ UNCHANGED <<vec, vec2>> ]_vars

\* C7 witness: operator== has returned true for two non-empty containers of
\* different capacities whose stale slots differ from the live ones
C7_Witness ==
  /\ last.op = "operator=="
  /\ last.result = "ok"
  /\ last.equal
  /\ I1(vec) /\ I1(vec2)
  /\ size(vec) > 0
  /\ capacity(vec) # capacity(vec2)
  /\ \E i \in size(vec)..(capacity(vec2) - 1) : vec2.data_[i] # vec2.data_[0]

\* C8: in every state with 0 <= length L <= N, iterating from begin() to
\* end() visits exactly slots 0, ..., L - 1 and iterating from rbegin() to
\* rend() visits exactly slots L - 1, ..., 0; no stale slot is visited, and
\* nothing is when L == 0.  The values a traversal returns are those slots'.
C8_IterationCoversLiveRange ==
  I1(vec) =>
    /\ forward_range(begin(vec), end(vec)) = Ascending(size(vec))
    /\ reverse_range(rbegin(vec), rend(vec)) = Descending(size(vec))
    /\ (last.op = "iterate" /\ last.result = "ok") =>
         last.ret = [k \in 1..size(vec) |-> vec.data_[k - 1]]
    /\ (last.op = "reverse_iterate" /\ last.result = "ok") =>
         last.ret = [k \in 1..size(vec) |-> vec.data_[size(vec) - k]]

\* C8 witness: a reverse traversal has run over a container with a live and
\* a stale slot of different content
C8_Witness ==
  /\ last.op = "reverse_iterate"
  /\ last.result = "ok"
  /\ size(vec) > 0
  /\ size(vec) < capacity(vec)
  /\ vec.data_[size(vec)] # vec.data_[size(vec) - 1]

C10_RemAssignStoresRemainder ==
  (np.op \in {"%=", "%=np"}) => np.value = operator_rem(np.lhs, np.rhs)

====
